---- MODULE Spec2Model ----
(***************************************************************************)
(* Chat session controller of the RAG chatbot widget: the useChat hook     *)
(* (hooks/useChat.ts), the ChatAPI client (utils/api.ts), the ChatProvider *)
(* context with its localStorage persistence effect, and the ChatPanel /   *)
(* ChatInput components that drive it.                                     *)
(*                                                                         *)
(* Scheduling: one JavaScript thread.  Every event handler, and every      *)
(* continuation of an await, runs to completion; React re-renders and      *)
(* flushes the effects of a state change before the next event is          *)
(* handled, so a handler, the render it causes and the persistence effect  *)
(* of that render form one step.                                           *)
(*                                                                         *)
(* Texts are strings.  A Message is a record; the optional property        *)
(* `sources` is a field that is present or not (a property whose value is  *)
(* undefined reads, and serialises, like an absent one).                   *)
(***************************************************************************)
EXTENDS Integers, Sequences, FiniteSets, TLC

VARIABLES
    messages,    \* useChat: useState<Message[]>(initialMessages)
    isLoading,   \* useChat: useState(false)
    error,       \* useChat: useState<string | null>(null)
    isOpen,      \* ChatProvider: useState(false)
    storage,     \* localStorage entry under STORAGE_KEY
    inflight,    \* sendMessage invocations suspended at `await ChatAPI.sendQuery`
    nextId,      \* uuidv4(): the next identifier never handed out before
    now,         \* Date.now(), in units of a network round trip
    input,       \* ChatInput: useState('')
    sent         \* history: the sends issued since the log was last reset, in order,
                 \* each with its text and, once the gateway has answered, the answer

vars == <<messages, isLoading, error, isOpen, storage, inflight, nextId, now, input,
          sent>>

-----------------------------------------------------------------------------
(* Bounds of the model *)

\* number of sends one behaviour may issue
MaxSends == 2
\* length of the conversation a previous page load may have left in localStorage
HistoryLen == 48
(* Program constants *)

MAX_STORED_MESSAGES == 50

\* JavaScript null (error: string | null)
Null == "<null>"

\* the identifiers of turns created by this behaviour start after the stored history's
FirstId == HistoryLen + 1

-----------------------------------------------------------------------------
(* String.prototype.trim *)

IsWhiteSpace(ch) == ch = " "

RECURSIVE trimStart(_)
trimStart(s) ==
    IF Len(s) > 0 /\ IsWhiteSpace(SubSeq(s, 1, 1))
    THEN trimStart(SubSeq(s, 2, Len(s)))
    ELSE s

RECURSIVE trimEnd(_)
trimEnd(s) ==
    IF Len(s) > 0 /\ IsWhiteSpace(SubSeq(s, Len(s), Len(s)))
    THEN trimEnd(SubSeq(s, 1, Len(s) - 1))
    ELSE s

trim(s) == trimEnd(trimStart(s))

\* Array.prototype.slice(-n), n > 0: the last min(n, length) elements
sliceLast(arr, n) ==
    IF Len(arr) <= n THEN arr ELSE SubSeq(arr, Len(arr) - n + 1, Len(arr))

-----------------------------------------------------------------------------
(* types.ts: Message, Source, ChatResponse, ChatError *)

HasSources(m) == "sources" \in DOMAIN m

\* useChat.sendMessage: const userMessage = { id, role: 'user', content, timestamp }
userMessage(id, content, timestamp) ==
    [id |-> id, role |-> "user", content |-> content, timestamp |-> timestamp]

\* useChat.sendMessage: const assistantMessage = { ..., content: response.response,
\* sources: response.sources }
assistantMessage(id, response, timestamp) ==
    IF HasSources(response)
    THEN [id |-> id, role |-> "assistant", content |-> response.response,
          timestamp |-> timestamp, sources |-> response.sources]
    ELSE [id |-> id, role |-> "assistant", content |-> response.response,
          timestamp |-> timestamp]

\* the template literal of the catch block
apologyContent(errorMessage) ==
    "Sorry, I encountered an error: " \o errorMessage \o ". Please try again."

\* useChat.sendMessage: const errorMsg = { id, role: 'assistant', content: `Sorry, ...` }
errorMsg(id, errorMessage, timestamp) ==
    [id |-> id, role |-> "assistant", content |-> apologyContent(errorMessage),
     timestamp |-> timestamp]

-----------------------------------------------------------------------------
(* The backend as the browser's fetch shows it to ChatAPI.sendQuery *)

Ros2Source == [title |-> "ROS 2 Intro", url |-> "/docs/ros2", module |-> "robotics"]

\* bodies of a 2xx reply: ChatResponse, the sources property present or not
ResponseBodies ==
    { [response |-> "ROS 2 is...", sources |-> <<Ros2Source>>],
      [response |-> "I don't have enough information"] }

\* bodies of a non-2xx reply: ChatError, the error property a text, empty or missing
ErrorBodies ==
    { [error |-> "rate limited", code |-> "429"],
      [code |-> "500"] }

FetchOutcomes ==
    { [kind |-> "ok", body |-> b] : b \in ResponseBodies }
      \cup { [kind |-> "http", body |-> b] : b \in ErrorBodies }
      \cup { [kind |-> "reject", message |-> "Failed to fetch"] }

Pending == [kind |-> "pending"]

\* errorData.error || 'Failed to get response'
httpErrorText(errorData) ==
    IF "error" \in DOMAIN errorData /\ errorData.error # ""
    THEN errorData.error
    ELSE "Failed to get response"

\* ChatAPI.sendQuery once fetch has settled with `outcome`: the data it returns or
\* the Error it throws (the catch block logs and rethrows)
sendQuery(outcome) ==
    CASE outcome.kind = "ok" ->
           [type |-> "return", data |-> outcome.body]
      [] outcome.kind = "http" ->
           [type |-> "throw",
            err |-> [isError |-> TRUE, message |-> httpErrorText(outcome.body)]]
      [] outcome.kind = "reject" ->
           [type |-> "throw",
            err |-> [isError |-> TRUE, message |-> outcome.message]]

\* faulty variant: the catch block ignores the message the Error carries
catchErrorMessage_generic(err) == "Failed to send message"

\* err instanceof Error ? err.message : 'Failed to send message'
catchErrorMessage(err) ==
    IF err.isError THEN err.message ELSE "Failed to send message"

\* faulty variant: setIsLoading(false) at the end of the try block instead of in finally
finallyIsLoading_tryOnly(result) == result.type # "return"

\* finally { setIsLoading(false) }
finallyIsLoading(result) == FALSE

\* faulty variant: the updater puts the new message in front
appendMessage_front(prev, m) == <<m>> \o prev

\* setMessages(prev => [...prev, m])
appendMessage(prev, m) == Append(prev, m)

-----------------------------------------------------------------------------
(* useLocalStorage<Message[]>(STORAGE_KEY, []): the stored value is JSON text.   *)
(* A JSON object is the list of its <<key, value>> pairs in property order.      *)

stringifyMessage(m) ==
    << <<"id", m.id>>, <<"role", m.role>>, <<"content", m.content>>,
       <<"timestamp", m.timestamp>> >>
      \o (IF HasSources(m) THEN << <<"sources", m.sources>> >> ELSE <<>>)

parseMessage(p) ==
    [k \in {p[i][1] : i \in DOMAIN p} |->
        p[CHOOSE i \in DOMAIN p : p[i][1] = k][2]]

JSONstringify(msgs) == [i \in 1..Len(msgs) |-> stringifyMessage(msgs[i])]

JSONparse(text) == [i \in 1..Len(text) |-> parseMessage(text[i])]

\* the setter: writes the value to localStorage, replacing the entry wholesale
setStoredMessages(value) == [kind |-> "json", value |-> JSONstringify(value)]

\* the value the hook yields on the first render: the parsed entry, or the initial
\* value [] when the entry is absent or does not parse
useLocalStorageRead(store) ==
    IF store.kind = "json" THEN JSONparse(store.value) ELSE <<>>

-----------------------------------------------------------------------------
(* ChatProvider *)

\* faulty variant: msgs.slice(0, MAX_STORED_MESSAGES): the oldest N instead of the newest
persistMessages_oldest(msgs) ==
    IF Len(msgs) <= MAX_STORED_MESSAGES THEN msgs ELSE SubSeq(msgs, 1, MAX_STORED_MESSAGES)

\* persistMessages: msgs.slice(-MAX_STORED_MESSAGES), handed to setStoredMessages
persistMessages(msgs) == sliceLast(msgs, MAX_STORED_MESSAGES)

\* React.useEffect(() => { if (messages.length > 0) persistMessages(messages) },
\* [messages, persistMessages]): the entry after the effect of a render
persistEffect(msgs, store) ==
    IF Len(msgs) > 0 THEN setStoredMessages(persistMessages(msgs)) ELSE store

\* faulty variant: useState<Message[]>([]): the stored messages are not used as the seed
useChatInitialMessages_empty(initialMessages) == <<>>

\* useChat(storedMessages): useState<Message[]>(initialMessages)
useChatInitialMessages(initialMessages) == initialMessages

\* a conversation an earlier page load left behind: n turns, questions answered in turn
HistoryMessage(i) ==
    IF i % 2 = 1
    THEN userMessage(i, "What is ROS 2?", 0)
    ELSE assistantMessage(i, [response |-> "ROS 2 is...", sources |-> <<Ros2Source>>], 0)

History(n) == [i \in 1..n |-> HistoryMessage(i)]

\* what localStorage may hold when the page loads
InitialStorage ==
    { [kind |-> "absent"], [kind |-> "malformed"], setStoredMessages(History(HistoryLen)) }

-----------------------------------------------------------------------------
(* Construction: ChatProvider mounts, useChat is seeded, the effect runs once *)

Init ==
    \E store \in InitialStorage :
        /\ messages = useChatInitialMessages(useLocalStorageRead(store))
        /\ storage = persistEffect(messages, store)
        /\ isLoading = FALSE
        /\ error = Null
        /\ isOpen = FALSE
        /\ inflight = {}
        /\ nextId = FirstId
        /\ now = 0
        /\ input = ""
        /\ sent = <<>>

\* faulty variant: the new page takes over the old page's loading flag
Reload_keepLoading ==
    /\ messages' = useChatInitialMessages(useLocalStorageRead(storage))
    /\ storage' = persistEffect(messages', storage)
    /\ isLoading' = isLoading
    /\ error' = Null
    /\ isOpen' = FALSE
    /\ inflight' = {}
    /\ input' = ""
    /\ sent' = <<>>
    /\ UNCHANGED <<nextId, now>>

\* the page is reloaded: the old page's pending calls die with it
Reload ==
    /\ messages' = useChatInitialMessages(useLocalStorageRead(storage))
    /\ storage' = persistEffect(messages', storage)
    /\ isLoading' = FALSE
    /\ error' = Null
    /\ isOpen' = FALSE
    /\ inflight' = {}
    /\ input' = ""
    /\ sent' = <<>>
    /\ UNCHANGED <<nextId, now>>

-----------------------------------------------------------------------------
(* useChat / ChatProvider operations *)

\* faulty variant: sendMessage without setIsLoading(true)
sendMessage_notBusy(content) ==
    /\ isLoading' = isLoading
    /\ error' = Null
    /\ messages' = appendMessage(messages, userMessage(nextId, content, now))
    /\ inflight' = inflight \cup {[id |-> nextId, query |-> content, outcome |-> Pending]}
    /\ nextId' = nextId + 1
    /\ storage' = persistEffect(messages', storage)
    /\ sent' = Append(sent, [call |-> nextId, text |-> content, answer |-> <<>>])
    /\ UNCHANGED <<isOpen, now>>

\* faulty variant: sendMessage without setError(null)
sendMessage_keepError(content) ==
    /\ isLoading' = TRUE
    /\ error' = error
    /\ messages' = appendMessage(messages, userMessage(nextId, content, now))
    /\ inflight' = inflight \cup {[id |-> nextId, query |-> content, outcome |-> Pending]}
    /\ nextId' = nextId + 1
    /\ storage' = persistEffect(messages', storage)
    /\ sent' = Append(sent, [call |-> nextId, text |-> content, answer |-> <<>>])
    /\ UNCHANGED <<isOpen, now>>

\* ChatProvider.sendMessage -> useChat.sendMessage, up to the await
sendMessage(content) ==
    /\ isLoading' = TRUE
    /\ error' = Null
    /\ messages' = appendMessage(messages, userMessage(nextId, content, now))
    /\ inflight' = inflight \cup {[id |-> nextId, query |-> content, outcome |-> Pending]}
    /\ nextId' = nextId + 1
    /\ storage' = persistEffect(messages', storage)
    /\ sent' = Append(sent, [call |-> nextId, text |-> content, answer |-> <<>>])
    /\ UNCHANGED <<isOpen, now>>

\* the network answers the fetch of call c; the round trip took its time
fetchSettles(c, outcome) ==
    /\ c \in inflight
    /\ c.outcome = Pending
    /\ inflight' = (inflight \ {c}) \cup {[c EXCEPT !.outcome = outcome]}
    /\ now' = now + 1
    /\ sent' = [i \in DOMAIN sent |->
                  IF sent[i].call = c.id /\ outcome.kind = "ok"
                  THEN [sent[i] EXCEPT !.answer = <<outcome.body.response>>]
                  ELSE sent[i]]
    /\ UNCHANGED <<messages, isLoading, error, isOpen, storage, nextId, input>>

\* useChat.sendMessage from the await on: try / catch / finally
sendMessageResume(c) ==
    /\ c \in inflight
    /\ c.outcome # Pending
    /\ LET result == sendQuery(c.outcome) IN
         /\ IF result.type = "return"
            THEN /\ messages' = appendMessage(messages, assistantMessage(nextId, result.data, now))
                 /\ error' = error
            ELSE /\ error' = catchErrorMessage(result.err)
                 /\ messages' = appendMessage(messages, errorMsg(nextId, error', now))
         /\ isLoading' = finallyIsLoading(result)
    /\ inflight' = inflight \ {c}
    /\ nextId' = nextId + 1
    /\ storage' = persistEffect(messages', storage)
    /\ UNCHANGED <<isOpen, now, input, sent>>

\* useChat.clearMessages: setMessages([]); setError(null)
clearMessages == [messages |-> <<>>, error |-> Null]

\* faulty variant: clearHistory without setStoredMessages([])
clearHistory_noErase ==
    /\ messages' = clearMessages.messages
    /\ error' = Null
    /\ storage' = persistEffect(messages', storage)
    /\ sent' = <<>>
    /\ UNCHANGED <<isLoading, isOpen, inflight, nextId, now, input>>

\* faulty variant: clearHistory also gives up on the pending call, setIsLoading(false)
clearHistory_resetBusy ==
    /\ messages' = clearMessages.messages
    /\ error' = Null
    /\ storage' = persistEffect(messages', setStoredMessages(<<>>))
    /\ sent' = <<>>
    /\ isLoading' = FALSE
    /\ UNCHANGED <<isOpen, inflight, nextId, now, input>>

\* ChatProvider.clearHistory: clearMessages(); setStoredMessages([]); setError(null)
clearHistory ==
    /\ messages' = clearMessages.messages
    /\ error' = Null
    /\ storage' = persistEffect(messages', setStoredMessages(<<>>))
    /\ sent' = <<>>
    /\ UNCHANGED <<isLoading, isOpen, inflight, nextId, now, input>>

\* faulty variant: setIsOpen(true) instead of flipping the previous value
toggleChat_openOnly ==
    /\ isOpen' = TRUE
    /\ input' = ""
    /\ UNCHANGED <<messages, isLoading, error, storage, inflight, nextId, now,
                   sent>>

\* ChatProvider.toggleChat; a closed ChatPanel renders nothing, so ChatInput and
\* its text are gone when the panel is opened again
toggleChat ==
    /\ isOpen' = ~isOpen
    /\ input' = ""
    /\ UNCHANGED <<messages, isLoading, error, storage, inflight, nextId, now,
                   sent>>

\* useChat's setError, handed out unchanged as contextValue.setError
setError(value) ==
    /\ error' = value
    /\ UNCHANGED <<messages, isLoading, isOpen, storage, inflight, nextId, now, input,
                   sent>>

\* the model stops issuing sends once MaxSends have been issued
CanSend == nextId + Cardinality(inflight) < FirstId + 2 * MaxSends

-----------------------------------------------------------------------------
(* ChatPanel / ChatInput *)

\* what the user may type into the textarea
TypedTexts == {"  ", " a "}

\* ChatInput.handleInput: setInput(e.target.value); the textarea is disabled while loading
handleInput(value) ==
    /\ isOpen
    /\ ~isLoading
    /\ input' = value
    /\ UNCHANGED <<messages, isLoading, error, isOpen, storage, inflight, nextId, now,
                   sent>>

\* faulty variant: the guard without the test of the trimmed text
handleSendAccepts_noTrimCheck(trimmed, disabled) == ~disabled

\* ChatInput.handleSend: if (trimmed && !disabled)
handleSendAccepts(trimmed, disabled) == trimmed # "" /\ ~disabled

\* ChatInput.handleSend (send button, or Enter via handleKeyDown), with onSend =
\* sendMessage and disabled = isLoading as ChatPanel passes them
handleSend ==
    /\ isOpen
    /\ \/ /\ handleSendAccepts(trim(input), isLoading)
          /\ CanSend
          /\ sendMessage(trim(input))
          /\ input' = ""
       \/ /\ ~handleSendAccepts(trim(input), isLoading)
          /\ UNCHANGED vars

\* the clear button, rendered when messages.length > 0
clearClick ==
    /\ isOpen
    /\ Len(messages) > 0
    /\ clearHistory

-----------------------------------------------------------------------------
(* The program: the widget driven through its user interface *)

Next ==
    \/ \E value \in TypedTexts : handleInput(value)
    \/ handleSend
    \/ clearClick
    \/ toggleChat
    \/ \E c \in inflight, outcome \in FetchOutcomes : fetchSettles(c, outcome)
    \/ \E c \in inflight : sendMessageResume(c)
    \/ Reload

Spec == Init /\ [][Next]_vars

(* The session facade driven by an arbitrary consumer of the context *)

FacadeTexts == {"", "  ", "a"}

\* what a consumer may hand to setError: (error: string | null)
SetErrorValues == {Null}

FacadeNext ==
    \/ \E content \in FacadeTexts : CanSend /\ sendMessage(content) /\ input' = input
    \/ clearHistory
    \/ toggleChat
    \/ \E value \in SetErrorValues : setError(value)
    \/ \E c \in inflight, outcome \in FetchOutcomes : fetchSettles(c, outcome)
    \/ \E c \in inflight : sendMessageResume(c)
    \/ Reload

FacadeSpec == Init /\ [][FacadeNext]_vars

(* The widget started on an empty log, with a backend that answers every query *)

OrderingTexts == {"  ", " a ", "b"}

OrderingNext ==
    \/ \E value \in OrderingTexts : handleInput(value)
    \/ handleSend
    \/ toggleChat
    \/ \E c \in inflight, body \in ResponseBodies :
          fetchSettles(c, [kind |-> "ok", body |-> body])
    \/ \E c \in inflight : sendMessageResume(c)

OrderingInit == Init /\ messages = <<>>

OrderingSpec == OrderingInit /\ [][OrderingNext]_vars

-----------------------------------------------------------------------------
(* Properties *)

Last(seq) == seq[Len(seq)]

Min(a, b) == IF a <= b THEN a ELSE b

IsBlank(text) == trim(text) = ""

\* C1 Single-flight: a send issued through the facade while isLoading is true
\* appends no turn and starts no gateway call.
SingleFlight ==
    [][\A content \in FacadeTexts :
          (isLoading /\ sendMessage(content))
             => (messages' = messages /\ inflight' = inflight)]_vars

\* C2 Busy-flag release: whatever the gateway's outcome, isLoading is false once
\* the send has settled, and the call is no longer outstanding.
BusyFlagRelease ==
    [][\A c \in inflight :
          sendMessageResume(c) => (isLoading' = FALSE /\ c \notin inflight')]_vars

BusyFlagReleaseWitness ==
    /\ ~isLoading
    /\ inflight = {}
    /\ Len(sent) = 2
    /\ sent[1].answer # <<>>
    /\ sent[2].answer = <<>>
    /\ Len(messages) >= 4

\* the text a failed fetch outcome carries, "" when it carries none
FailureText(outcome) ==
    IF outcome.kind = "http"
    THEN (IF "error" \in DOMAIN outcome.body THEN outcome.body.error ELSE "")
    ELSE outcome.message

ExpectedErrorMessage(outcome) ==
    IF FailureText(outcome) # "" THEN FailureText(outcome) ELSE "Failed to get response"

\* C3 Error visibility: when the gateway call of a send fails, the settle appends
\* exactly one assistant turn whose content is the apology template around the
\* failure's message (the generic fallback when it carries none), and error is
\* that same message.
ErrorVisibility ==
    [][\A c \in inflight :
          (c.outcome.kind \in {"http", "reject"} /\ sendMessageResume(c))
             => LET msg == ExpectedErrorMessage(c.outcome) IN
                  /\ Len(messages') = Len(messages) + 1
                  /\ SubSeq(messages', 1, Len(messages)) = messages
                  /\ Last(messages').role = "assistant"
                  /\ Last(messages').content
                       = "Sorry, I encountered an error: " \o msg \o ". Please try again."
                  /\ error' = msg
                  /\ c \notin inflight']_vars

ErrorVisibilityWitness ==
    /\ error = "rate limited"
    /\ inflight = {}
    /\ Len(messages) >= 2
    /\ Last(messages).role = "assistant"
    /\ Last(messages).content = "Sorry, I encountered an error: rate limited. Please try again."
    /\ messages[Len(messages) - 1].role = "user"

\* C4 Ordering: after any sequence of successful sends from an empty log, the log
\* is user_1, assistant_1, user_2, assistant_2, ...: user_i carries the text of
\* the i-th send and assistant_i its answer; only the last send may still lack
\* its answer, while its call is outstanding.
Ordering ==
    /\ Len(messages) = 2 * Len(sent) - (IF inflight = {} THEN 0 ELSE 1)
    /\ \A i \in 1..Len(sent) :
          /\ messages[2 * i - 1].role = "user"
          /\ messages[2 * i - 1].content = sent[i].text
          /\ 2 * i <= Len(messages) =>
                /\ messages[2 * i].role = "assistant"
                /\ sent[i].answer = <<messages[2 * i].content>>

OrderingWitness ==
    /\ Len(messages) = 4
    /\ inflight = {}
    /\ sent[1].text # sent[2].text
    /\ sent[1].answer # sent[2].answer

\* C5 Retention-bounded snapshot: the persisted snapshot is the last
\* min(50, length) turns of the log, in order (an entry that was never written
\* goes with an empty log); it never holds more than 50.
RetentionBoundedSnapshot ==
    IF storage.kind = "json"
    THEN LET snapshot == JSONparse(storage.value)
             n == Min(50, Len(messages))
         IN /\ Len(snapshot) = n
            /\ Len(snapshot) <= 50
            /\ \A i \in 1..n : snapshot[i] = messages[Len(messages) - n + i]
    ELSE messages = <<>>

RetentionWitness ==
    /\ Len(messages) = 52
    /\ storage.kind = "json"
    /\ Len(storage.value) = 50
    /\ JSONparse(storage.value)[50] = messages[52]
    /\ JSONparse(storage.value)[1] = messages[3]

\* C6 Clear semantics: clearHistory leaves the log empty, error null and the
\* persisted snapshot an empty sequence, and a reload from there starts empty.
ClearSemantics ==
    [][clearHistory =>
          /\ messages' = <<>>
          /\ error' = Null
          /\ storage' = [kind |-> "json", value |-> <<>>]
          /\ useChatInitialMessages(useLocalStorageRead(storage')) = <<>>]_vars

ClearWitness ==
    /\ messages = <<>>
    /\ error = Null
    /\ storage = [kind |-> "json", value |-> <<>>]
    /\ nextId > FirstId

RoundTrip ==
    [][(Reload /\ Len(messages) <= 50) => messages' = messages]_vars

RoundTripWitness ==
    /\ sent = <<>>
    /\ inflight = {}
    /\ ~isLoading
    /\ Len(messages) = 50
    /\ Last(messages).id >= FirstId
    /\ Last(messages).role = "assistant"
    /\ ~HasSources(Last(messages))
    /\ HasSources(messages[1])

\* C9 At most one backend call is outstanding, and isLoading is true exactly
\* while one is.
OneOutstandingCall ==
    /\ Cardinality(inflight) <= 1
    /\ isLoading <=> inflight # {}

OneOutstandingCallWitness ==
    /\ isLoading
    /\ Cardinality(inflight) = 1
    /\ Len(sent) = 2

\* C10 Causal pairing: every assistant turn is immediately preceded by a user
\* turn and every user turn but the last is immediately followed by its
\* response, so the log alternates user / assistant.
CausalPairing ==
    \A i \in DOMAIN messages :
        /\ messages[i].role = "assistant" => (i > 1 /\ messages[i - 1].role = "user")
        /\ (messages[i].role = "user" /\ i < Len(messages))
              => messages[i + 1].role = "assistant"

\* C11 Facade surface: send (with its settle), clear and toggle are the only
\* exposed actions that change messages, isLoading, error or isOpen; a consumer
\* cannot set error directly.
FacadeSurface ==
    [][<<messages, isLoading, error, isOpen>>' # <<messages, isLoading, error, isOpen>>
          => \/ \E content \in FacadeTexts : sendMessage(content)
             \/ \E c \in inflight : sendMessageResume(c)
             \/ clearHistory
             \/ toggleChat
             \/ Reload]_vars

\* C12 toggle only flips isOpen: it leaves messages, isLoading, error and the
\* stored snapshot unchanged and starts no gateway call, also while a send is in
\* flight; send (with its settle) and clear never change isOpen.
ToggleFrame ==
    [][/\ toggleChat =>
            /\ isOpen' = ~isOpen
            /\ UNCHANGED <<messages, isLoading, error, storage, inflight>>
       /\ (\/ Len(sent') = Len(sent) + 1
           \/ \E c \in inflight : sendMessageResume(c)
           \/ clearHistory) => isOpen' = isOpen]_vars

ToggleWitness ==
    /\ ~isOpen
    /\ isLoading
    /\ \E c \in inflight : c.outcome # Pending
    /\ Len(messages) = 1

\* C13 On a successful send the appended assistant turn carries the returned
\* answer text and the returned sources, and sources is the empty sequence when
\* the response has no sources field.
SuccessCarriesSources ==
    [][\A c \in inflight :
          (c.outcome.kind = "ok" /\ sendMessageResume(c))
             => /\ Len(messages') = Len(messages) + 1
                /\ Last(messages').role = "assistant"
                /\ Last(messages').content = c.outcome.body.response
                /\ HasSources(Last(messages'))
                /\ Last(messages').sources
                     = (IF HasSources(c.outcome.body) THEN c.outcome.body.sources ELSE <<>>)]_vars

\* C14 error tracks the most recent failure: starting a send and clearing set it
\* to null, a settle sets it to the failure's message or leaves it null on
\* success, and nothing else within a session changes it; so with no send in
\* flight it is null after a successful send or a clear and the last failure's
\* message after a failed send.
LastErrorTracks ==
    [][/\ \A c \in inflight :
            sendMessageResume(c)
               => error' = (IF c.outcome.kind = "ok"
                            THEN Null
                            ELSE ExpectedErrorMessage(c.outcome))
       /\ clearHistory => error' = Null
       /\ Len(sent') = Len(sent) + 1 => error' = Null
       /\ error' # error
            => \/ \E c \in inflight : sendMessageResume(c)
               \/ clearHistory
               \/ Len(sent') = Len(sent) + 1
               \/ Reload]_vars

LastErrorWitness ==
    /\ inflight = {}
    /\ error = Null
    /\ Len(sent) = 2
    /\ sent[1].answer = <<>>
    /\ sent[2].answer # <<>>
    /\ Len(messages) >= 4

\* C15 Optimistic append: while a send is pending isLoading is true and error is
\* null, and unless the log was cleared since the send was issued its last turn
\* is that send's user turn, carrying the text handed to the gateway.
OptimisticAppend ==
    \A c \in inflight :
        /\ isLoading
        /\ error = Null
        /\ sent # <<>> =>
              /\ Len(messages) > 0
              /\ Last(messages).role = "user"
              /\ Last(messages).id = c.id
              /\ Last(messages).content = c.query
              /\ Last(sent).call = c.id

OptimisticAppendWitness ==
    /\ \E c \in inflight : c.outcome = Pending
    /\ Len(sent) = 1
    /\ Len(messages) = HistoryLen + 1
    /\ isOpen

\* C16 No timeout: as long as the gateway has not answered a call, nothing but
\* the gateway's answer (or leaving the page) ends the wait: the call stays
\* outstanding, isLoading stays true and no response turn is appended.
NoTimeout ==
    [][\A c \in inflight :
          c.outcome = Pending
             => \/ \E outcome \in FetchOutcomes : fetchSettles(c, outcome)
                \/ Reload
                \/ /\ c \in inflight'
                   /\ isLoading'
                   /\ ~(/\ Len(messages') > Len(messages)
                        /\ Last(messages').role = "assistant")]_vars

NoTimeoutWitness ==
    /\ \E c \in inflight : c.outcome = Pending
    /\ isLoading
    /\ messages = <<>>
    /\ ~isOpen

\* C17 Append-only log: every step within a session (a page reload starts a new
\* one, seeded from the snapshot) leaves messages unchanged, appends exactly one
\* turn at its end keeping the existing turns and their order, or empties it;
\* the truncation of the persistence effect never shortens messages.
AppendOnlyLog ==
    [][\/ Reload
       \/ messages' = messages
       \/ /\ Len(messages') = Len(messages) + 1
          /\ SubSeq(messages', 1, Len(messages)) = messages
       \/ messages' = <<>>]_vars

AppendOnlyWitness ==
    /\ Len(messages) = 51
    /\ isLoading
    /\ storage.kind = "json"
    /\ Len(storage.value) = 50
    /\ JSONparse(storage.value)[1] = messages[2]

\* C18 UI input guard: every send the widget issues comes from ChatInput.handleSend
\* with the trimmed textarea content, which is not empty, and only while the input
\* is not disabled; so no send carries whitespace-only text and no send starts
\* while another one is loading or outstanding.
InputGuard ==
    [][Len(sent') = Len(sent) + 1
          => /\ Last(sent').text = trim(input)
             /\ ~IsBlank(Last(sent').text)
             /\ trim(Last(sent').text) = Last(sent').text
             /\ ~isLoading
             /\ inflight = {}
             /\ Cardinality(inflight') = 1
             /\ input' = ""]_vars

InputGuardWitness ==
    /\ Len(sent) = 2
    /\ sent[1].text = "a"
    /\ sent[2].text = "a"
    /\ isLoading
    /\ input = ""
    /\ Last(messages).content = "a"
    /\ Cardinality(inflight) = 1

\* C19 Clear during a pending send: once the history has been cleared, messages
\* and the stored snapshot both stay empty until the next send is issued, also
\* when a send that was in flight at the time of the clear settles afterwards.
ClearDuringPending ==
    [][(/\ messages = <<>>
        /\ storage = setStoredMessages(<<>>)
        /\ Len(sent') # Len(sent) + 1)
          => (messages' = <<>> /\ storage' = storage)]_vars

\* a log made of complete user / response pairs only
CompletePairs(log) ==
    /\ Len(log) % 2 = 0
    /\ \A i \in DOMAIN log :
          log[i].role = (IF i % 2 = 1 THEN "user" ELSE "assistant")

\* C20 Reload at any moment, as claimed: whenever the page is reloaded, the new
\* session starts with isLoading false and error null, and its seeded log consists
\* of complete user / response pairs only (it begins with a user turn and has no
\* trailing user turn without a response).
ReloadCompletePairs ==
    [][Reload => /\ isLoading' = FALSE
                 /\ error' = Null
                 /\ CompletePairs(messages')]_vars

\* C20 Reload at any moment, amended: whenever the page is reloaded, the new
\* session starts with isLoading false, error null and no call outstanding, and
\* its seeded log is the last min(50, n) turns of the n turns the log had before
\* the reload, in order; so it may end with a user turn that has no response and
\* may begin with an assistant turn.
ReloadSeedsTail ==
    [][Reload => /\ isLoading' = FALSE
                 /\ error' = Null
                 /\ inflight' = {}
                 /\ Len(messages') = Min(MAX_STORED_MESSAGES, Len(messages))
                 /\ \A i \in DOMAIN messages' :
                       messages'[i] = messages[Len(messages) - Len(messages') + i]]_vars

ReloadWitness ==
    /\ sent = <<>>
    /\ inflight = {}
    /\ ~isLoading
    /\ Len(messages) = 50
    /\ messages[1].role = "assistant"
    /\ Last(messages).role = "user"
    /\ Last(messages).id > FirstId

====
